---- MODULE Spec2Model ----
(***************************************************************************)
(* Model of the download orchestrator of src/main.py: main_menu's batch    *)
(* loop, download_media_list, and the download_media coroutine of every    *)
(* selected message, run by one asyncio event loop.                        *)
(*                                                                         *)
(* Scheduling.  asyncio runs one task at a time and switches tasks only at *)
(* an await that really suspends.  The variable cur names the task that is *)
(* in the middle of a run of synchronous code (NoItem when the loop is     *)
(* free to pick any ready task), so the steps of one such run are separate *)
(* actions that no other task can interleave with.                         *)
(*                                                                         *)
(* File system.  dir maps a path to an inode (0: no such file) and isize   *)
(* gives an inode's length in chunks.  A task that streams holds an open   *)
(* descriptor fd[i] on an inode and writes at its own position pos[i], as  *)
(* open(file, 'wb') / f.write do for the path given on line 120: opening   *)
(* truncates, and the descriptor follows the inode through a rename.       *)
(***************************************************************************)
EXTENDS Integers, FiniteSets, Sequences, TLC

\* ---- bounds of the model
NumItems == 2          \* messages listed in the channel
MaxBatches == 2        \* download_media_list calls made by main_menu
MaxRetries == 2        \* timeouts one download_media call chain may see
MaxConc == 2           \* largest max_concurrent_downloads tried
MaxRate == 2           \* rate_limit.max_rate; one Tick leaks one unit
MaxInodes == 4         \* inodes the file system can hold

Items == 1..NumItems
NoItem == 0

\* The two strings a ledger key can be: str(message.chat_id), and a
\* str(channel) that differs from it (an "@username").
ChatKey == "chat_id"
AliasKey == "@name"

\* File names: None, a document name (shared by all documents), "<id>.jpg".
NoName == -1
DocName == 0
Names == 0..NumItems
Paths == Names \X {"final", "part"}

VARIABLES
    maxConcurrent,  \* MAX_CONCURRENT_DOWNLOADS
    channel,        \* str(channel) of main_menu
    media,          \* per message: "photo", "doc" (named file), "unnamed"
    phase,          \* "menu", "running", "returned", "crashed"
    batches,        \* download_media_list calls so far
    selected,       \* selected_media of the current call
    pc,             \* per item: position of its download_media task
    cur,            \* task in a synchronous run, or NoItem
    sem,            \* semaphore._value
    held,           \* per item: permits its call chain holds
    level,          \* rate_limiter._level
    dir, isize,     \* file system
    fd, pos,        \* per item: open descriptor (inode, 0 none), position
    downloaded_size,\* per item: local of line 111-113
    history,        \* download_media_list's dict, shared by the tasks
    download_history, \* main_menu's dict
    durable,        \* content of HISTORY_FILE
    result,         \* per item: value returned by download_media
    downloaded,     \* sum(results), as logged on line 153
    \* ---- observation only: never read by an action's guard or effect
    loaded,         \* history as loaded on line 145
    tokens,         \* per item: rate tokens acquired in this batch
    starts,         \* per item: message.download_media calls in this batch
    last,           \* per item: how its last attempt ended
    madeBy,         \* per name: item whose rename put the final file there
    prior,          \* items that returned 1 in an earlier batch
    finalized,      \* items whose rename on line 122 has succeeded
    recent          \* per age in ticks: streams started that long ago

vars == <<maxConcurrent, channel, media, phase, batches, selected, pc, cur,
          sem, held, level, dir, isize, fd, pos, downloaded_size, history,
          download_history, durable, result, downloaded, loaded, tokens,
          starts, last, madeBy, prior, finalized, recent>>

config == <<maxConcurrent, channel, media>>
files == <<dir, isize, fd, pos, madeBy>>
ledgers == <<history, download_history, durable>>
ghosts == <<loaded, tokens, starts, last, prior, finalized, recent>>

Terminal == {"success", "skipped", "failed"}
Gone == Terminal \cup {"idle", "raised", "cancelled"}

RECURSIVE Sum(_, _)
Sum(f, S) == IF S = {} THEN 0
             ELSE LET x == CHOOSE y \in S : TRUE IN f[x] + Sum(f, S \ {x})

Max(a, b) == IF a >= b THEN a ELSE b
Min(S) == CHOOSE x \in S : \A y \in S : x <= y

\* ---- line 100-103: the paths of a message
Filename(i) == CASE media[i] = "photo" -> i
                 [] media[i] = "doc" -> DocName
                 [] OTHER -> NoName
Path(i) == <<Filename(i), "final">>
TempPath(i) == <<Filename(i), "part">>
Exists(p) == dir[p] # 0
Getsize(p) == isize[dir[p]]
FileSize(i) == IF i = 1 THEN 2 ELSE 1      \* message.file.size, in chunks

\* ---- line 105: the dedup test
DedupNoLedger(i) == Exists(Path(i))
Dedup(i) == Exists(Path(i)) \/ <<ChatKey, i>> \in history

\* ---- asyncio.Semaphore.locked, line 109
SemLockedNever == FALSE
SemLocked == sem <= 0

\* ---- AsyncLimiter.has_capacity, line 119
HasCapacity == level + 1 <= MaxRate

\* ---- time_period of line 41 in ticks: the bucket leaks max_rate units
\* per period, one per tick
Period == MaxRate
Ages == 0..(Period - 1)

Init ==
    /\ maxConcurrent \in 1..MaxConc
    /\ channel \in {ChatKey, AliasKey}
    /\ media \in [Items -> {"photo", "doc", "unnamed"}]
    /\ phase = "menu"
    /\ batches = 0
    /\ selected = {}
    /\ pc = [i \in Items |-> "idle"]
    /\ cur = NoItem
    /\ sem = maxConcurrent
    /\ held = [i \in Items |-> 0]
    /\ level = 0
    /\ dir = [p \in Paths |-> 0]
    /\ isize = [k \in 1..MaxInodes |-> 0]
    /\ fd = [i \in Items |-> 0]
    /\ pos = [i \in Items |-> 0]
    /\ downloaded_size = [i \in Items |-> 0]
    /\ history = {}
    /\ download_history = {}
    /\ durable = {}
    /\ result = [i \in Items |-> 0]
    /\ downloaded = 0
    /\ loaded = {}
    /\ tokens = [i \in Items |-> 0]
    /\ starts = [i \in Items |-> 0]
    /\ last = [i \in Items |-> "none"]
    /\ madeBy = [n \in Names |-> NoItem]
    /\ prior = {}
    /\ finalized = {}
    /\ recent = [a \in Ages |-> 0]

\* ---- line 140-148: download_media_list up to the creation of the tasks
StartBatch(S) ==
    /\ phase = "menu"
    /\ batches < MaxBatches
    /\ S # {}
    /\ phase' = "running"
    /\ batches' = batches + 1
    /\ selected' = S
    /\ sem' = maxConcurrent
    /\ history' = durable
    /\ loaded' = durable
    /\ pc' = [i \in Items |-> IF i \in S THEN "pending" ELSE "idle"]
    /\ held' = [i \in Items |-> 0]
    /\ result' = [i \in Items |-> 0]
    /\ downloaded_size' = [i \in Items |-> 0]
    /\ tokens' = [i \in Items |-> 0]
    /\ starts' = [i \in Items |-> 0]
    /\ last' = [i \in Items |-> "none"]
    /\ downloaded' = 0
    /\ prior' = prior \cup {i \in Items : pc[i] = "success"}
    /\ UNCHANGED <<config, cur, level, files, download_history, durable,
                   finalized, recent>>

\* A return of download_media from whatever depth of the recursion: every
\* enclosing "async with semaphore" releases on the way out.
Return(i, state, value) ==
    /\ pc' = [pc EXCEPT ![i] = state]
    /\ result' = [result EXCEPT ![i] = value]
    /\ sem' = sem + held[i]
    /\ held' = [held EXCEPT ![i] = 0]
    /\ cur' = NoItem

\* Line 105-109 of a call: skip, or go on to the semaphore; the task keeps
\* running when the semaphore is free.
EnterCall(i) ==
    IF Dedup(i)
    THEN Return(i, "skipped", 0)
    ELSE /\ pc' = [pc EXCEPT ![i] = "gate"]
         /\ cur' = IF SemLocked THEN NoItem ELSE i
         /\ UNCHANGED <<result, sem, held>>

\* ---- line 100-107: a task's first step
Begin(i) ==
    /\ phase = "running" /\ cur = NoItem
    /\ pc[i] = "pending"
    /\ IF Filename(i) = NoName
       THEN \* os.path.join(download_dir, None) raises outside the try
            /\ pc' = [pc EXCEPT ![i] = "raised"]
            /\ UNCHANGED <<result, sem, held, cur>>
       ELSE EnterCall(i)
    /\ UNCHANGED <<config, phase, batches, selected, level, files,
                   downloaded_size, ledgers, downloaded, ghosts>>

\* ---- line 109: async with semaphore
AcquirePermit(i) ==
    /\ phase = "running" /\ cur \in {NoItem, i}
    /\ pc[i] = "gate"
    /\ ~SemLocked
    /\ sem' = sem - 1
    /\ held' = [held EXCEPT ![i] = @ + 1]
    /\ pc' = [pc EXCEPT ![i] = "resume"]
    /\ cur' = i
    /\ UNCHANGED <<config, phase, batches, selected, level, files,
                   downloaded_size, ledgers, result, downloaded, ghosts>>

\* ---- line 111-119: the resume offset, then up to rate_limiter.acquire
ResumeDecisionRetryUnlimited(i) ==
    /\ phase = "running" /\ cur = i
    /\ pc[i] = "resume"
    /\ downloaded_size' = [downloaded_size EXCEPT ![i] =
            IF Exists(TempPath(i)) THEN Getsize(TempPath(i)) ELSE 0]
    /\ pc' = [pc EXCEPT ![i] = IF held[i] > 1 THEN "call" ELSE "rate"]
    /\ cur' = IF held[i] > 1 \/ HasCapacity THEN i ELSE NoItem
    /\ UNCHANGED <<config, phase, batches, selected, sem, held, level, files,
                   ledgers, result, downloaded, ghosts>>

ResumeDecision(i) ==
    /\ phase = "running" /\ cur = i
    /\ pc[i] = "resume"
    /\ downloaded_size' = [downloaded_size EXCEPT ![i] =
            IF Exists(TempPath(i)) THEN Getsize(TempPath(i)) ELSE 0]
    /\ pc' = [pc EXCEPT ![i] = "rate"]
    /\ cur' = IF HasCapacity THEN i ELSE NoItem
    /\ UNCHANGED <<config, phase, batches, selected, sem, held, level, files,
                   ledgers, result, downloaded, ghosts>>

\* ---- line 119: await rate_limiter.acquire()
AcquireToken(i) ==
    /\ phase = "running" /\ cur \in {NoItem, i}
    /\ pc[i] = "rate"
    /\ HasCapacity
    /\ level' = level + 1
    /\ tokens' = [tokens EXCEPT ![i] = @ + 1]
    /\ pc' = [pc EXCEPT ![i] = "call"]
    /\ cur' = i
    /\ UNCHANGED <<config, phase, batches, selected, sem, held, files,
                   downloaded_size, ledgers, result, downloaded, loaded,
                   starts, last, prior, finalized, recent>>

\* ---- line 120: message.download_media(file=temp_path, ...) is called
CallStream(i) ==
    /\ phase = "running" /\ cur = i
    /\ pc[i] = "call"
    /\ starts' = [starts EXCEPT ![i] = @ + 1]
    /\ recent' = [recent EXCEPT ![0] = @ + 1]
    /\ pc' = [pc EXCEPT ![i] = "stream"]
    /\ cur' = NoItem
    /\ UNCHANGED <<config, phase, batches, selected, sem, held, level, files,
                   downloaded_size, ledgers, result, downloaded, loaded,
                   tokens, last, prior, finalized>>

\* ---- line 120, inside the Provider: the file is opened for writing
FreeInodes == {k \in 1..MaxInodes :
                 (\A p \in Paths : dir[p] # k) /\ (\A j \in Items : fd[j] # k)}

StreamOpen(i) ==
    /\ phase = "running" /\ cur = NoItem
    /\ pc[i] = "stream" /\ fd[i] = 0
    /\ IF Exists(TempPath(i))
       THEN /\ fd' = [fd EXCEPT ![i] = dir[TempPath(i)]]
            /\ isize' = [isize EXCEPT ![dir[TempPath(i)]] = 0]
            /\ dir' = dir
       ELSE /\ FreeInodes # {}
            /\ fd' = [fd EXCEPT ![i] = Min(FreeInodes)]
            /\ isize' = [isize EXCEPT ![Min(FreeInodes)] = 0]
            /\ dir' = [dir EXCEPT ![TempPath(i)] = Min(FreeInodes)]
    /\ pos' = [pos EXCEPT ![i] = 0]
    /\ UNCHANGED <<config, phase, batches, selected, pc, cur, sem, held,
                   level, madeBy, downloaded_size, ledgers, result,
                   downloaded, ghosts>>

\* ---- line 120, inside the Provider: one chunk is written
StreamWrite(i) ==
    /\ phase = "running" /\ cur = NoItem
    /\ pc[i] = "stream" /\ fd[i] # 0
    /\ pos[i] < FileSize(i)
    /\ pos' = [pos EXCEPT ![i] = @ + 1]
    /\ isize' = [isize EXCEPT ![fd[i]] = Max(@, pos[i] + 1)]
    /\ UNCHANGED <<config, phase, batches, selected, pc, cur, sem, held,
                   level, dir, fd, madeBy, downloaded_size, ledgers, result,
                   downloaded, ghosts>>

\* ---- line 120: the stream completes and download_media returns
StreamEndRecordFirst(i) ==
    /\ phase = "running" /\ cur = NoItem
    /\ pc[i] = "stream" /\ fd[i] # 0
    /\ pos[i] = FileSize(i)
    /\ fd' = [fd EXCEPT ![i] = 0]
    /\ last' = [last EXCEPT ![i] = "done"]
    /\ pc' = [pc EXCEPT ![i] = "record"]
    /\ cur' = i
    /\ UNCHANGED <<config, phase, batches, selected, sem, held, level, dir,
                   isize, pos, madeBy, downloaded_size, ledgers, result,
                   downloaded, loaded, tokens, starts, prior, finalized,
                   recent>>

StreamEnd(i) ==
    /\ phase = "running" /\ cur = NoItem
    /\ pc[i] = "stream" /\ fd[i] # 0
    /\ pos[i] = FileSize(i)
    /\ fd' = [fd EXCEPT ![i] = 0]
    /\ last' = [last EXCEPT ![i] = "done"]
    /\ pc' = [pc EXCEPT ![i] = "rename"]
    /\ cur' = i
    /\ UNCHANGED <<config, phase, batches, selected, sem, held, level, dir,
                   isize, pos, madeBy, downloaded_size, ledgers, result,
                   downloaded, loaded, tokens, starts, prior, finalized,
                   recent>>

\* ---- line 133-135: asyncio.TimeoutError, then the recursive call
Timeout(i) ==
    /\ phase = "running" /\ cur = NoItem
    /\ pc[i] = "stream"
    /\ held[i] <= MaxRetries
    /\ fd' = [fd EXCEPT ![i] = 0]
    /\ last' = [last EXCEPT ![i] = "timeout"]
    /\ EnterCall(i)
    /\ UNCHANGED <<config, phase, batches, selected, level, dir, isize, pos,
                   madeBy, downloaded_size, ledgers, downloaded, loaded,
                   tokens, starts, prior, finalized, recent>>

\* ---- line 136-138: any other exception of the stream
StreamErrorCleanup(i) ==
    /\ phase = "running" /\ cur = NoItem
    /\ pc[i] = "stream"
    /\ fd' = [fd EXCEPT ![i] = 0]
    /\ last' = [last EXCEPT ![i] = "error"]
    /\ dir' = [dir EXCEPT ![TempPath(i)] = 0]
    /\ Return(i, "failed", 0)
    /\ UNCHANGED <<config, phase, batches, selected, level, isize, pos,
                   madeBy, downloaded_size, ledgers, downloaded, loaded,
                   tokens, starts, prior, finalized, recent>>

StreamError(i) ==
    /\ phase = "running" /\ cur = NoItem
    /\ pc[i] = "stream"
    /\ fd' = [fd EXCEPT ![i] = 0]
    /\ last' = [last EXCEPT ![i] = "error"]
    /\ Return(i, "failed", 0)
    /\ UNCHANGED <<config, phase, batches, selected, level, dir, isize, pos,
                   madeBy, downloaded_size, ledgers, downloaded, loaded,
                   tokens, starts, prior, finalized, recent>>

\* ---- line 122: os.rename(temp_path, path); FileNotFoundError goes to 136
Rename(i) ==
    /\ phase = "running" /\ cur = i
    /\ pc[i] = "rename"
    /\ IF Exists(TempPath(i))
       THEN /\ dir' = [dir EXCEPT ![Path(i)] = dir[TempPath(i)],
                                  ![TempPath(i)] = 0]
            /\ madeBy' = [madeBy EXCEPT ![Filename(i)] = i]
            /\ finalized' = finalized \cup {i}
            /\ pc' = [pc EXCEPT ![i] = "record"]
            /\ UNCHANGED <<result, sem, held, cur, last>>
       ELSE /\ last' = [last EXCEPT ![i] = "error"]
            /\ Return(i, "failed", 0)
            /\ UNCHANGED <<dir, madeBy, finalized>>
    /\ UNCHANGED <<config, phase, batches, selected, level, isize, fd, pos,
                   downloaded_size, ledgers, downloaded, loaded, tokens,
                   starts, prior, recent>>

\* ---- line 125-129: history.setdefault(chat_id, {})[id] = {...}
RecordDropSiblings(h, i) == {e \in h : e[1] # ChatKey} \cup {<<ChatKey, i>>}
RecordEntry(h, i) == h \cup {<<ChatKey, i>>}

Record(i) ==
    /\ phase = "running" /\ cur = i
    /\ pc[i] = "record"
    /\ history' = RecordEntry(history, i)
    /\ pc' = [pc EXCEPT ![i] = "persist"]
    /\ UNCHANGED <<config, phase, batches, selected, cur, sem, held, level,
                   files, downloaded_size, download_history, durable, result,
                   downloaded, ghosts>>

\* ---- line 130 and 57-59: save_download_history(history)
Persist(i) ==
    /\ phase = "running" /\ cur = i
    /\ pc[i] = "persist"
    /\ durable' = history
    /\ pc' = [pc EXCEPT ![i] = "return"]
    /\ UNCHANGED <<config, phase, batches, selected, cur, sem, held, level,
                   files, downloaded_size, history, download_history, result,
                   downloaded, ghosts>>

\* ---- line 130 raising (open(HISTORY_FILE, 'w') fails), caught on line 136
PersistFail(i) ==
    /\ phase = "running" /\ cur = i
    /\ pc[i] = "persist"
    /\ last' = [last EXCEPT ![i] = "error"]
    /\ Return(i, "failed", 0)
    /\ UNCHANGED <<config, phase, batches, selected, level, files,
                   downloaded_size, ledgers, downloaded, loaded, tokens,
                   starts, prior, finalized, recent>>

\* ---- line 132: return 1
ReturnOne(i) ==
    /\ phase = "running" /\ cur = i
    /\ pc[i] = "return"
    /\ Return(i, "success", 1)
    /\ UNCHANGED <<config, phase, batches, selected, level, files,
                   downloaded_size, ledgers, downloaded, ghosts>>

\* ---- line 150: gather re-raises the exception of a task; nothing catches
\* it, asyncio.run cancels the tasks still running and the program ends.
GatherRaise ==
    /\ phase = "running" /\ cur = NoItem
    /\ \E i \in selected : pc[i] = "raised"
    /\ phase' = "crashed"
    /\ pc' = [i \in Items |-> IF pc[i] \in Gone THEN pc[i] ELSE "cancelled"]
    /\ fd' = [i \in Items |-> 0]
    /\ sem' = sem + Sum(held, Items)
    /\ held' = [i \in Items |-> 0]
    /\ UNCHANGED <<config, batches, selected, cur, level, dir, isize, pos,
                   madeBy, downloaded_size, ledgers, result, downloaded,
                   ghosts>>

\* ---- line 150-153: every task has returned
CountAll(S) == Cardinality(S)
Count(S) == Sum(result, S)

BatchReturn ==
    /\ phase = "running" /\ cur = NoItem
    /\ \A i \in selected : pc[i] \in Terminal
    /\ downloaded' = Count(selected)
    /\ phase' = "returned"
    /\ UNCHANGED <<config, batches, selected, pc, cur, sem, held, level,
                   files, downloaded_size, ledgers, result, ghosts>>

\* ---- line 258-266: main_menu marks every selected item and saves its dict
MenuUpdate ==
    /\ phase = "returned"
    /\ download_history' =
            download_history \cup {<<channel, i>> : i \in selected}
    /\ durable' = download_history'
    /\ phase' = "menu"
    /\ UNCHANGED <<config, batches, selected, pc, cur, sem, held, level,
                   files, downloaded_size, history, result, downloaded,
                   ghosts>>

\* ---- AsyncLimiter._leak: one tick passes, the bucket leaks one unit
Leak(l) == Max(l - 1, 0)

Tick ==
    /\ cur = NoItem
    /\ level > 0 \/ \E a \in Ages : recent[a] > 0
    /\ level' = Leak(level)
    /\ recent' = [a \in Ages |-> IF a = 0 THEN 0 ELSE recent[a - 1]]
    /\ UNCHANGED <<config, phase, batches, selected, pc, cur, sem, held,
                   files, downloaded_size, ledgers, result, downloaded,
                   loaded, tokens, starts, last, prior, finalized>>

Next ==
    \/ \E S \in SUBSET Items : StartBatch(S)
    \/ \E i \in Items : Begin(i)
    \/ \E i \in Items : AcquirePermit(i)
    \/ \E i \in Items : ResumeDecision(i)
    \/ \E i \in Items : AcquireToken(i)
    \/ \E i \in Items : CallStream(i)
    \/ \E i \in Items : StreamOpen(i)
    \/ \E i \in Items : StreamWrite(i)
    \/ \E i \in Items : StreamEnd(i)
    \/ \E i \in Items : Timeout(i)
    \/ \E i \in Items : StreamError(i)
    \/ \E i \in Items : Rename(i)
    \/ \E i \in Items : Record(i)
    \/ \E i \in Items : Persist(i)
    \/ \E i \in Items : PersistFail(i)
    \/ \E i \in Items : ReturnOne(i)
    \/ GatherRaise
    \/ BatchReturn
    \/ MenuUpdate
    \/ Tick

Spec == Init /\ [][Next]_vars

TypeOK ==
    /\ sem \in 0..MaxConc
    /\ level \in 0..MaxRate
    /\ \A i \in Items : held[i] \in 0..(MaxRetries + 1)
    /\ \A i \in Items : fd[i] \in 0..MaxInodes
    /\ sem + Sum(held, Items) = maxConcurrent

\* ======================================================================
\* Claims
\* ======================================================================

\* Items inside a transfer attempt: rate token acquired, stream not ended.
Active == {i \in Items : pc[i] \in {"call", "stream"}}

\* C1: the number of items that are inside a transfer attempt at the same
\* time never exceeds maxConcurrent, retries after timeouts included.
ConcurrencyBound == Cardinality(Active) <= maxConcurrent

\* C1 witness: the gate is full of streaming items, one of them in a retry
\* or another item kept waiting at the gate.
ConcurrencyBoundWitness ==
    /\ Cardinality(Active) = maxConcurrent
    /\ \E i \in Active : pc[i] = "stream" /\ fd[i] # 0
    /\ \E j \in Items : pc[j] = "gate" /\ SemLocked

\* C2: every item holds at most one permit of the semaphore, also while it
\* retries after a timeout.
OnePermitPerItem == \A i \in Items : held[i] <= 1

\* C3: a running batch never reaches a state in which every unfinished item
\* waits for a permit that no item can release any more.
NoBatchStuckAtGate ==
    ~ ( /\ phase = "running" /\ cur = NoItem
        /\ \E i \in selected : pc[i] = "gate"
        /\ \A i \in selected : pc[i] \in Terminal \cup {"gate"}
        /\ SemLocked )

\* C4: an item whose (chat_id, id) is in the ledger loaded by the batch, or
\* that succeeded in an earlier batch, never gets past the dedup test: it
\* takes no permit and no rate token, starts no stream, opens no file and
\* counts 0; its step changes neither the files nor the ledgers; a batch
\* made only of such items returns the count 0.
Known(i) == <<ChatKey, i>> \in loaded \/ i \in prior
DedupState ==
    /\ \A i \in selected : Known(i) =>
          /\ pc[i] \in {"pending", "skipped", "cancelled"}
          /\ held[i] = 0 /\ tokens[i] = 0 /\ starts[i] = 0
          /\ fd[i] = 0 /\ result[i] = 0
    /\ (phase = "returned" /\ \A i \in selected : Known(i)) => downloaded = 0
DedupStep ==
    \A i \in selected :
        (Known(i) /\ pc[i] = "pending" /\ pc'[i] # "pending")
            => UNCHANGED <<dir, isize, history, durable, level>>
DedupIdempotence == []DedupState /\ [][DedupStep]_vars

\* C4 witness: a second batch has returned 0 after skipping an item that the
\* loaded ledger lists and that succeeded before.
DedupIdempotenceWitness ==
    /\ phase = "returned" /\ batches = 2 /\ downloaded = 0
    /\ \E i \in selected :
          <<ChatKey, i>> \in loaded /\ i \in prior /\ pc[i] = "skipped"

\* C5: a file under a final name is never shorter than the size of the item
\* whose rename put it there, and no stream writes into a file that is
\* visible under a final name.
AtomicVisibility ==
    /\ \A n \in Names : Exists(<<n, "final">>) =>
          Getsize(<<n, "final">>) >= FileSize(madeBy[n])
    /\ \A i \in Items : fd[i] # 0 =>
          \A n \in Names : dir[<<n, "final">>] # fd[i]

\* C6: when every item of a returned batch succeeded, the durable ledger
\* equals the in-memory one and its new entries are exactly the batch's
\* items, one each.
AllSucceeded == phase = "returned" /\ \A i \in selected : pc[i] = "success"
LedgerConsistency ==
    AllSucceeded =>
        /\ durable = history
        /\ durable \ loaded = {<<ChatKey, i>> : i \in selected}
        /\ Cardinality(durable) = Cardinality(loaded) + Cardinality(selected)

\* C6 witness: a batch of more than one item has returned, all succeeded.
LedgerConsistencyWitness == AllSucceeded /\ Cardinality(selected) >= 2

\* C7: the count of a returned batch is the number of its items that ended
\* in success; an item returns 1 exactly when it ended in success, which it
\* does only after its stream completed, its file was renamed and its entry
\* was persisted (the entry is in the durable ledger until the batch returns).
SuccessCount ==
    /\ \A i \in selected : pc[i] \in Terminal =>
          /\ result[i] = IF pc[i] = "success" THEN 1 ELSE 0
          /\ pc[i] = "success" =>
                /\ last[i] = "done" /\ starts[i] >= 1
                /\ Exists(Path(i))
                /\ phase \in {"running", "returned"} =>
                      <<ChatKey, i>> \in durable
    /\ phase = "returned" =>
          downloaded = Cardinality({i \in selected : pc[i] = "success"})

\* C7 witness: a returned batch with an item that succeeded on a retry and
\* an item that did not succeed.
SuccessCountWitness ==
    /\ phase = "returned" /\ downloaded = 1
    /\ \E i \in selected : pc[i] = "success" /\ starts[i] >= 2
    /\ \E j \in selected : pc[j] \in {"failed", "skipped"}

\* C8: a non-timeout failure of an item ends that item alone, with result
\* 0 and its permits released: no task raises out of download_media and no
\* sibling is cancelled.
FailureIsolation ==
    \A i \in Items :
        /\ pc[i] \notin {"raised", "cancelled"}
        /\ pc[i] = "failed" => result[i] = 0 /\ held[i] = 0

\* C9: a timeout never ends an item and never leaves it unable to start its
\* next attempt.
StuckAfterTimeout(i) ==
    /\ phase = "running" /\ cur = NoItem
    /\ last[i] = "timeout" /\ pc[i] = "gate" /\ SemLocked
    /\ \A j \in selected : pc[j] \in Terminal \cup {"gate"}
TimeoutAlwaysRetried ==
    \A i \in selected :
        /\ last[i] = "timeout" => pc[i] \notin Terminal
        /\ ~StuckAfterTimeout(i)

ResumeCorrectness ==
    \A i \in Items :
        /\ (pc[i] = "stream" /\ fd[i] # 0) => pos[i] >= downloaded_size[i]
        /\ pc[i] = "rename" =>
              /\ pos[i] = FileSize(i) - downloaded_size[i]
              /\ Exists(TempPath(i)) => Getsize(TempPath(i)) = FileSize(i)

\* C12: every entry of the durable ledger belongs to an item whose transfer
\* was completed, that is, whose partial file was renamed to its final path.
OnlyCompletedRecorded == \A e \in durable : e[2] \in finalized

\* C13 as claimed: an item that ended in failure has put nothing under its
\* final name and has no ledger entry; the step that ends an item in failure
\* changes no file and no ledger; an item has no partial file when it
\* reaches success, and none remains after a batch whose items all
\* succeeded.
CleanupStep ==
    \A i \in Items :
        /\ (pc'[i] = "failed" /\ pc[i] # "failed")
              => UNCHANGED <<dir, isize, history, durable>>
        /\ (pc'[i] = "success" /\ pc[i] # "success")
              => ~Exists(TempPath(i))'
NoPartAfterSuccess ==
    AllSucceeded => \A i \in selected : ~Exists(TempPath(i))
CleanupAsClaimed ==
    /\ [](\A i \in Items : pc[i] = "failed" =>
              i \notin finalized /\ <<ChatKey, i>> \notin history)
    /\ []NoPartAfterSuccess
    /\ [][CleanupStep]_vars

\* C13 amended: the same, except that only an item that failed before its
\* rename (in the stream or in the rename) has put nothing under its final
\* name and has no entry; an item that failed in the persist step has its
\* final file in place and its entry in the in-memory ledger.
FailedState ==
    \A i \in Items : pc[i] = "failed" =>
        IF i \in finalized
        THEN Exists(Path(i)) /\ <<ChatKey, i>> \in history
        ELSE madeBy[Filename(i)] # i /\ <<ChatKey, i>> \notin history
ResourceCleanup ==
    []FailedState /\ []NoPartAfterSuccess /\ [][CleanupStep]_vars

\* C13 witness: a returned batch with an item that failed in its stream and
\* left a non-empty partial file, and an item that succeeded and left none.
ResourceCleanupWitness ==
    /\ phase = "returned"
    /\ \E i \in selected :
          /\ pc[i] = "failed" /\ i \notin finalized
          /\ Exists(TempPath(i)) /\ Getsize(TempPath(i)) >= 1
    /\ \E j \in selected : pc[j] = "success" /\ ~Exists(TempPath(j))

\* C14: in every window of one period (Period consecutive ticks) at most
\* MaxRate streams are started, over all items and retries.
StartedInWindow == Sum(recent, Ages)
RateBound == StartedInWindow <= MaxRate

\* C15: the task of an item moves through its steps in the order dedup test,
\* permit, resume decision, rate token, stream call, rename, record,
\* persist, return 1 (a timeout goes back to the dedup test); the entry its
\* worker records or persists belongs to a renamed final file, and it has
\* returned 1 only with its entry in the durable ledger.
StepOrder ==
    { <<"pending", "gate">>, <<"pending", "skipped">>, <<"pending", "raised">>,
      <<"gate", "resume">>, <<"resume", "rate">>, <<"rate", "call">>,
      <<"call", "stream">>,
      <<"stream", "rename">>, <<"stream", "gate">>, <<"stream", "skipped">>,
      <<"stream", "failed">>,
      <<"rename", "record">>, <<"rename", "failed">>,
      <<"record", "persist">>,
      <<"persist", "return">>, <<"persist", "failed">>,
      <<"return", "success">> }
OrderStep ==
    \A i \in Items :
        pc'[i] # pc[i] =>
            \/ <<pc[i], pc'[i]>> \in StepOrder
            \/ pc'[i] \in {"pending", "idle", "cancelled"}
OrderState ==
    phase \in {"running", "returned"} =>
        \A i \in selected :
            /\ <<ChatKey, i>> \in (history \cup durable) \ loaded =>
                  i \in finalized /\ Exists(Path(i))
            /\ pc[i] \in {"persist", "return"} => <<ChatKey, i>> \in history
            /\ result[i] = 1 => <<ChatKey, i>> \in durable
StepsInOrder == []OrderState /\ [][OrderStep]_vars

\* C15 witness: an item has renamed, recorded and persisted, and has not
\* returned yet, in its second attempt.
StepsInOrderWitness ==
    \E i \in selected :
        /\ pc[i] = "return" /\ result[i] = 0 /\ starts[i] = 2
        /\ i \in finalized /\ <<ChatKey, i>> \in durable

\* C16: an entry under str(chat_id) that is in the durable ledger is still
\* in it after every later write of the ledger, by a worker or by main_menu.
KeepsEntries ==
    \A i \in Items : <<ChatKey, i>> \in durable => <<ChatKey, i>> \in durable'
NoEntryLost == [][KeepsEntries]_vars

\* C17: no item is about to start a stream or to rename while its final
\* path exists, and no two items have the same partial path open for
\* writing at the same time.
DedupStillHolds ==
    /\ \A i \in Items :
          pc[i] \in {"call", "rename"} => ~Exists(Path(i))
    /\ \A i, j \in Items :
          (i # j /\ fd[i] # 0 /\ fd[j] # 0) => TempPath(i) # TempPath(j)
====
